---- MODULE Spec2Model ----
(***************************************************************************)
(* Verification model of the pixistockchart candlestick chart: the         *)
(* viewport (pan / zoom) state machine, the frame renderer (drawChart) and *)
(* the listener life cycle of the StockChart components.                   *)
(*                                                                         *)
(* Two versions of the StockChart component are in the repository:         *)
(*   variant A  src/src/lib/StockChart.js  (one Graphics per candle,       *)
(*              fixed minimum candle width 4)                              *)
(*   variant B  src/unnamed/part_004       (batched geometry, dynamic      *)
(*              minimum width, needsRedraw / lastDrawnRange cache)         *)
(*                                                                         *)
(* JavaScript numbers are modelled as exact rationals <<n, d>> (d > 0,     *)
(* lowest terms); <<0,0>> is NaN and <<1,0>>, <<-1,0>> are +/-Infinity.    *)
(* Floating-point rounding is not modelled.                                *)
(***************************************************************************)
EXTENDS Integers, Sequences, FiniteSets, TLC

(***************************************************************************)
(* Numbers                                                                 *)
(***************************************************************************)
Abs(x) == IF x < 0 THEN -x ELSE x

Sign(x) == IF x < 0 THEN -1 ELSE IF x > 0 THEN 1 ELSE 0

RECURSIVE GCD(_, _)
GCD(a, b) == IF b = 0 THEN a ELSE GCD(b, a % b)

\* the rational n/d in lowest terms with a positive denominator (d # 0)
Norm(n, d) ==
    IF d = 1 THEN <<n, 1>>
    ELSE LET g == GCD(Abs(n), Abs(d))
             s == IF d < 0 THEN -1 ELSE 1
         IN  <<(s * n) \div g, (s * d) \div g>>

I(n) == <<n, 1>>

NaN == <<0, 0>>

IsFinite(a) == a[2] # 0

IsNaN(a) == a = NaN

\* an infinity of the given sign (sign 0 gives NaN, as 0 * Infinity does)
Inf(s) == <<Sign(s), 0>>

JsAdd(a, b) ==
    IF a[2] # 0 /\ b[2] # 0
    THEN Norm(a[1] * b[2] + b[1] * a[2], a[2] * b[2])
    ELSE IF IsNaN(a) \/ IsNaN(b) THEN NaN
    ELSE IF ~IsFinite(a) /\ ~IsFinite(b) THEN (IF a = b THEN a ELSE NaN)
    ELSE IF ~IsFinite(a) THEN a
    ELSE b

JsNeg(a) == <<-a[1], a[2]>>

JsSub(a, b) == JsAdd(a, JsNeg(b))

JsMul(a, b) ==
    IF a[2] # 0 /\ b[2] # 0
    THEN Norm(a[1] * b[1], a[2] * b[2])
    ELSE IF IsNaN(a) \/ IsNaN(b) THEN NaN
    ELSE Inf(a[1] * b[1])

\* IEEE division: x/0 is +/-Infinity, 0/0 is NaN
JsDiv(a, b) ==
    IF a[2] # 0 /\ b[2] # 0
    THEN (IF b[1] = 0 THEN Inf(a[1]) ELSE Norm(a[1] * b[2], a[2] * b[1]))
    ELSE IF IsNaN(a) \/ IsNaN(b) THEN NaN
    ELSE IF ~IsFinite(a) /\ ~IsFinite(b) THEN NaN
    ELSE IF ~IsFinite(a) THEN Inf(a[1] * (IF b[1] < 0 THEN -1 ELSE 1))
    ELSE I(0)

\* a < b on finite numbers and infinities; every comparison with NaN is false
JsLt(a, b) ==
    IF a[2] # 0 /\ b[2] # 0
    THEN a[1] * b[2] < b[1] * a[2]
    ELSE IF IsNaN(a) \/ IsNaN(b) THEN FALSE
    ELSE IF ~IsFinite(a) THEN a[1] < 0 /\ a # b
    ELSE b[1] > 0

JsLe(a, b) == ~IsNaN(a) /\ ~IsNaN(b) /\ ~JsLt(b, a)

\* Math.max / Math.min of two numbers: NaN if either is NaN
JsMax(a, b) == IF IsNaN(a) \/ IsNaN(b) THEN NaN ELSE IF JsLt(a, b) THEN b ELSE a

JsMin(a, b) == IF IsNaN(a) \/ IsNaN(b) THEN NaN ELSE IF JsLt(b, a) THEN b ELSE a

JsAbs(a) == <<Abs(a[1]), a[2]>>

\* Math.floor of a finite number, as an integer
Floor(a) == a[1] \div a[2]

\* Math.round of a finite number: halves round towards +Infinity
Round(a) == Floor(JsAdd(a, <<1, 2>>))

MinInt(a, b) == IF a < b THEN a ELSE b

MaxInt(a, b) == IF a > b THEN a ELSE b

(***************************************************************************)
(* Program constants                                                       *)
(***************************************************************************)
\* viewState.canvasWidth at mount: pixels per candle
DefaultCanvasWidth == 20

\* axisDimensions at mount; held fixed (label measurement is an external
\* collaborator of the chart core)
YAxisWidth == 50

XAxisHeight == 25

\* dimensions.height = window.innerHeight - 50
HeaderHeight == 50

\* constrainCandleWidth(.., 4, 100) in variant A
MinWidthA == 4

MaxWidth == 100

\* constrainCandleWidth(.., 0.1, 100, chartWidth, totalDataCount) in variant B
MinWidthB == <<1, 10>>

\* floor of the dynamic minimum width: Math.max(0.01, chartWidth / total)
DynamicMinFloor == <<1, 100>>

\* e.deltaY < 0 ? 1.2 : 0.8
ZoomIn == <<6, 5>>

ZoomOut == <<4, 5>>

\* loadData of variant A: const maxCandlesToShow = 72
maxCandlesToShow == 72

\* smoothRender defers the destroy calls when the container has more children
SmoothRenderLimit == 30

\* objectPools.maxPoolSize
maxPoolSize == 100

(***************************************************************************)
(* Bounds of the model                                                     *)
(***************************************************************************)
\* drawChart calls made with the data loaded, in one behaviour
MaxDrawCalls == 3

\* runs of the initialisation effect in one behaviour
MaxEffects == 4

\* largest denominator of a candle width: zoom steps whose width needs a finer
\* fraction are left out
MaxDenominator == 5

\* dataset lengths: shorter than the first window, and longer than it
DataLengths == {6, 30}

\* "flat": every open/high/low/close equal; "mixed": rising, doji and
\* falling candles
DataKinds == {"flat", "mixed"}

\* the dataset of the batch scenario: three candles (open, close) = (10, 11),
\* (11, 13), (13, 9), kind "scenario", next to the first three "mixed" ones
BatchDataLength == 3

BatchDataKinds == {"scenario", "mixed"}

\* window.innerWidth x window.innerHeight
WindowSizes == {<<250, 275>>, <<750, 275>>}

\* e.clientX of pointer events
MouseXs == {0, 60}

\* events handed to one throttled function in one behaviour
MaxEvents == 4

\* Date.now() when the throttled function is made, and the last instant
\* looked at; time advances in steps of TickMs
StartClock == 100

MaxClock == 216

TickMs == 4

(***************************************************************************)
(* Data                                                                    *)
(***************************************************************************)
\* the candle at index i of the loaded dataset
Candle(kind, i) ==
    IF kind = "flat"
    THEN [open |-> 100, high |-> 100, low |-> 100, close |-> 100]
    ELSE IF kind = "scenario"
    THEN CASE i % 3 = 0 -> [open |-> 10, high |-> 12, low |-> 9, close |-> 11]
           [] i % 3 = 1 -> [open |-> 11, high |-> 14, low |-> 10, close |-> 13]
           [] OTHER     -> [open |-> 13, high |-> 13, low |-> 8, close |-> 9]
    ELSE CASE i % 4 = 0 -> [open |-> 100, high |-> 103, low |-> 99, close |-> 102]
           [] i % 4 = 1 -> [open |-> 102, high |-> 103, low |-> 101, close |-> 102]
           [] i % 4 = 2 -> [open |-> 102, high |-> 105, low |-> 101, close |-> 104]
           [] OTHER     -> [open |-> 104, high |-> 105, low |-> 99, close |-> 100]

\* Array.prototype.slice(start, end) on an array of length len: the index set
\* it keeps (negative arguments count from the end of the array)
SliceFrom(start, len) == IF start < 0 THEN MaxInt(len + start, 0) ELSE MinInt(start, len)

SliceIndices(start, end, len) ==
    LET from == SliceFrom(start, len)
        to == SliceFrom(end, len)
    IN  {i \in 0..(len - 1) : from <= i /\ i < to}

SetMin(S) == CHOOSE x \in S : \A y \in S : x <= y

SetMax(S) == CHOOSE x \in S : \A y \in S : x >= y

(***************************************************************************)
(* Pure utilities                                                          *)
(***************************************************************************)
\* calculateChartDimensions(width, height, {}, axisDimensions): the margins are
\* top 0, right yAxisWidth, bottom xAxisHeight, left 0
calculateChartDimensions(width, height) ==
    [marginTop |-> 0, marginLeft |-> 0,
     chartWidth |-> width - 0 - YAxisWidth,
     chartHeight |-> height - 0 - XAxisHeight]

\* marginLeft + (index + 0.5) * canvasWidth
indexToX(index, cw, marginLeft) ==
    JsAdd(I(marginLeft), JsMul(JsAdd(I(index), <<1, 2>>), cw))

\* an inverse that rounds to the nearest index
xToIndex_Round(x, cw, marginLeft) == Round(JsDiv(JsSub(x, I(marginLeft)), cw))

\* Math.floor((x - marginLeft) / canvasWidth)
xToIndex(x, cw, marginLeft) == Floor(JsDiv(JsSub(x, I(marginLeft)), cw))

\* Math.max(minBodyWidth, canvasWidth * bodyWidthRatio) with (2, 0.8)
calculateCandleBodyWidth(cw) == JsMax(I(2), JsMul(cw, <<4, 5>>))

\* JavaScript truthiness of a number used as a condition
Truthy(a) == ~IsNaN(a) /\ a # I(0)

\* constrainCandleWidth; chartWidth and totalDataCount are 0 where the caller
\* passes none (null)
constrainCandleWidth(currentWidth, zoomFactor, minWidth, maxWidth, chartWidth, totalDataCount) ==
    LET newWidth == JsMul(currentWidth, zoomFactor)
        dynamicMinWidth ==
            IF Truthy(chartWidth) /\ Truthy(totalDataCount) /\ JsLt(I(0), totalDataCount)
            THEN JsMax(DynamicMinFloor, JsDiv(chartWidth, totalDataCount))
            ELSE minWidth
    IN  JsMax(dynamicMinWidth, JsMin(maxWidth, newWidth))

\* a price range padded by 10% of the lowest price instead of 10% of the range
calculatePriceRange_PadByPrice(kind, idx) ==
    LET all == UNION {{Candle(kind, i).open, Candle(kind, i).high,
                       Candle(kind, i).low, Candle(kind, i).close} : i \in idx}
        minPrice == I(SetMin(all \cup {0}))
        maxPrice == I(SetMax(all \cup {0}))
        padding == JsMul(minPrice, <<1, 10>>)
        priceMin == JsSub(minPrice, padding)
        priceMax == JsAdd(maxPrice, padding)
    IN  [minPrice |-> minPrice, maxPrice |-> maxPrice, priceMin |-> priceMin,
         priceMax |-> priceMax, priceDiff |-> JsSub(priceMax, priceMin)]

\* calculatePriceRange(visibleData) with the default 10% padding; idx is the
\* index set of the visible slice
calculatePriceRange(kind, idx) ==
    IF idx = {}
    THEN [minPrice |-> I(0), maxPrice |-> I(0), priceMin |-> I(0),
          priceMax |-> I(0), priceDiff |-> I(0)]
    ELSE LET all == UNION {{Candle(kind, i).open, Candle(kind, i).high,
                            Candle(kind, i).low, Candle(kind, i).close} : i \in idx}
             minPrice == I(SetMin(all))
             maxPrice == I(SetMax(all))
             padding == JsMul(JsSub(maxPrice, minPrice), <<1, 10>>)
             priceMin == JsSub(minPrice, padding)
             priceMax == JsAdd(maxPrice, padding)
         IN  [minPrice |-> minPrice, maxPrice |-> maxPrice, priceMin |-> priceMin,
              priceMax |-> priceMax, priceDiff |-> JsSub(priceMax, priceMin)]

\* chartTop + chartHeight - ((price - priceMin) / priceDiff) * chartHeight
priceToY(price, priceMin, priceDiff, chartTop, chartHeight) ==
    JsSub(JsAdd(chartTop, chartHeight),
          JsMul(JsDiv(JsSub(price, priceMin), priceDiff), chartHeight))

\* an inverse that takes the chart to start at pixel row 0
yToPrice_NoTop(y, priceMin, priceDiff, chartTop, chartHeight) ==
    JsAdd(priceMin, JsMul(JsDiv(JsSub(chartHeight, y), chartHeight), priceDiff))

\* priceMin + ((chartTop + chartHeight - y) / chartHeight) * priceDiff
yToPrice(y, priceMin, priceDiff, chartTop, chartHeight) ==
    JsAdd(priceMin,
          JsMul(JsDiv(JsSub(JsAdd(chartTop, chartHeight), y), chartHeight), priceDiff))

\* d3 scaleLinear().domain([d0, d1]).range([r0, r1]) applied to a price; a
\* domain of zero width maps every price to the middle of the range
scaleLinear(d0, d1, r0, r1, price) ==
    IF JsSub(d1, d0) = I(0)
    THEN JsAdd(r0, JsMul(<<1, 2>>, JsSub(r1, r0)))
    ELSE JsAdd(r0, JsMul(JsDiv(JsSub(price, d0), JsSub(d1, d0)), JsSub(r1, r0)))

\* generatePriceTicks: the position priceScale gives a price, priceScale being
\* scaleLinear().domain([minPrice, maxPrice])
\*              .range([chartBottom - verticalPadding, chartTop + verticalPadding])
PriceTickPosition(price, minPrice, maxPrice, chartTop, chartBottom, verticalPadding) ==
    scaleLinear(minPrice, maxPrice, JsSub(chartBottom, verticalPadding),
                JsAdd(chartTop, verticalPadding), price)

\* generateYAxisConfig, as SvgYAxis and SvgGrid call it for their price lines:
\* the padding is (chartBounds.bottom - chartBounds.top) * 0.0125
YAxisPosition(price, priceMin, priceMax, chartTop, chartBottom) ==
    PriceTickPosition(price, priceMin, priceMax, chartTop, chartBottom,
                      JsMul(JsSub(chartBottom, chartTop), <<1, 80>>))

(***************************************************************************)
(* State                                                                   *)
(***************************************************************************)
VARIABLES
    dataLength,      \* stockData.current.length once the data has arrived
    dataKind,        \* which dataset arrives
    dataLoaded,      \* React state dataLoaded
    win,             \* <<window.innerWidth, window.innerHeight>>
    dimensions,      \* React state dimensions, as closed over by drawChart; the
                     \* value handed to setDimensions is always the window's
    startIndex,      \* viewState.current.startIndex
    canvasWidth,     \* viewState.current.canvasWidth (pixels per candle)
    maxCandles,      \* viewState.current.maxCandles (the visible count)
    isDragging,      \* viewState.current.isDragging
    lastMouseX,      \* viewState.current.lastMouseX
    needsRedraw,     \* viewState.current.needsRedraw (variant B)
    lastDrawnRange,  \* viewState.current.lastDrawnRange (variant B)
    chartDimensions, \* viewState.current.chartDimensions
    scene,           \* the children of chartContainer (the display list)
    screen,          \* the frame last submitted to renderer.render on the canvas
    leaked,          \* Graphics made by drawChart that left the display list and
                     \* were never destroyed (backgrounds are not counted)
    orphaned,        \* a torn-down stage left its chart container undestroyed
    poolSize,        \* Graphics held by objectPools (variant B)
    destroyQueue,    \* drawables whose destroy smoothRender deferred (variant A)
    drawCalls,       \* drawChart calls made with the data loaded, since mount
    rafDraws,        \* drawChart calls waiting for an animation frame
    timerDraws,      \* drawChart calls waiting for their 100 ms timer
    pointerOver,     \* the pointer is over the canvas
    rendered,        \* frames drawChart has submitted to renderer.render
    metrics,         \* records onPerformanceUpdate has received
    metricsPending,  \* records whose animation-frame callback has not run yet
                     \* (variant A)
    mounted,         \* the component is mounted
    effectRuns,      \* runs of the initialisation effect so far
    pending,         \* effect runs whose initPixi still awaits app.init
    appRef,          \* the effect run whose application is in appRef.current (0: null)
    attached,        \* effect runs whose listeners are on the canvas and the document
    memoryTasks,     \* the cleanup tasks are registered
    throttled,       \* one function made by getRafThrottled: its key and delay
    clock,           \* Date.now(), in ms
    lastCall,        \* lastCall of the throttled function
    rafId,           \* rafId of the throttled function (0: null)
    rafQueue,        \* the animation-frame callbacks requested and not yet run
    lastEvent,       \* number of the latest event handed to the throttled function
    lastArrival,     \* the time at which it arrived
    burst,           \* events that arrived since the latest animation frame
    inFrame,         \* events that arrived before the latest frame, since the one before
    ranInFrame,      \* runs of the handler body in the latest animation frame and
                     \* since it
    processed,       \* number of the event whose state the body last processed
    calc,            \* the latest call of a coordinate or price utility made
                     \* on its own: its arguments and what it returned
    views,           \* two StockChart components on one page: the viewState
                     \* objects their handlers close over
    shown,           \* the <<startIndex, canvasWidth>> each of the two last drew
    op,              \* the latest event on the page: the component whose canvas
                     \* it was sent to (0: none), and what its handler did: a
                     \* "pan", a "zoom", a "render", or something "other"
    manualViewport,  \* ManualViewportStockChart: the manualViewport ref (camera
                     \* position, zoom, world width of a candle, drag state)
    manualData,      \* its stockData.current.length and dimensions.width
    manualOps        \* drags and wheel events its handlers have handled

viewVars == <<startIndex, canvasWidth, maxCandles, isDragging, lastMouseX,
              needsRedraw, lastDrawnRange, chartDimensions>>

dataVars == <<dataLength, dataKind, dataLoaded>>

renderVars == <<scene, screen, leaked, orphaned, poolSize, destroyQueue, drawCalls>>

vars == <<dataLength, dataKind, dataLoaded, win, dimensions,
          startIndex, canvasWidth, maxCandles, isDragging, lastMouseX,
          needsRedraw, lastDrawnRange, chartDimensions, scene, screen, leaked,
          orphaned, poolSize, destroyQueue, drawCalls, rafDraws, timerDraws,
          pointerOver, rendered, metrics, metricsPending, mounted, effectRuns, pending, appRef, attached,
          memoryTasks, throttled, clock, lastCall, rafId, rafQueue, lastEvent,
          lastArrival, burst, inFrame, ranInFrame, processed, calc,
          views, shown, op, manualViewport, manualData, manualOps>>

chartVars == <<dataLength, dataKind, dataLoaded, win, dimensions, startIndex,
               canvasWidth, maxCandles, isDragging, lastMouseX, needsRedraw,
               lastDrawnRange, chartDimensions, scene, screen, leaked, orphaned,
               poolSize, destroyQueue, drawCalls, rafDraws, timerDraws,
               pointerOver, rendered, metrics, metricsPending>>

metricVars == <<rendered, metrics, metricsPending>>

lifeVars == <<mounted, effectRuns, pending, appRef, attached, memoryTasks>>

throttleVars == <<throttled, clock, lastCall, rafId, rafQueue, lastEvent,
                  lastArrival, burst, inFrame, ranInFrame, processed>>

utilVars == <<calc>>

twinVars == <<views, shown, op>>

manualVars == <<manualViewport, manualData, manualOps>>

\* no utility has been called on its own
NoCall == [fn |-> "none"]

\* React state dimensions for a window size
DimensionsOf(w) == [width |-> w[1], height |-> w[2] - HeaderHeight]

ChartDimensionsOf(d) == calculateChartDimensions(d.width, d.height)

\* Math.floor(chartWidth / canvasWidth)
MaxCandlesFor(chartWidth, cw) == Floor(JsDiv(I(chartWidth), cw))

(***************************************************************************)
(* One frame                                                               *)
(***************************************************************************)
NoFrame ==
    [start |-> 0, count |-> 0, canvasWidth |-> I(0), width |-> 0, height |-> 0,
     draws |-> 0, wicks |-> 0, bullish |-> 0, bearish |-> 0, nonFinite |-> FALSE,
     bodyHeights |-> {}, dojiHeights |-> {}, wickEnds |-> {}]

EmptyScene == [bg |-> 0, gfx |-> 0, frame |-> NoFrame]

\* the visible slice: stockData.current.slice(startIndex, endIndex)
EndIndex(si, mc, len) == MinInt(si + mc, len)

VisibleIndices(si, mc, len) == SliceIndices(si, EndIndex(si, mc, len), len)

\* candle geometry whose body height has no minimum
CandleGeometry_NoMinimum(kind, i, local, cw, openY, closeY, highY, lowY) ==
    LET candle == Candle(kind, i)
        x == indexToX(local, cw, 0)
        bodyWidth == calculateCandleBodyWidth(cw)
    IN  [x |-> x,
         highY |-> highY,
         lowY |-> lowY,
         bodyX |-> JsSub(x, JsDiv(bodyWidth, I(2))),
         bodyTop |-> JsMin(openY, closeY),
         bodyWidth |-> bodyWidth,
         bodyHeight |-> JsAbs(JsSub(closeY, openY)),
         isBullish |-> candle.close >= candle.open]

\* geometry of the candle at data index i, drawn at position local of the
\* visible slice; openY .. lowY are the pixel rows of its four prices
CandleGeometry(kind, i, local, cw, openY, closeY, highY, lowY) ==
    LET candle == Candle(kind, i)
        x == indexToX(local, cw, 0)
        bodyWidth == calculateCandleBodyWidth(cw)
    IN  [x |-> x,
         highY |-> highY,
         lowY |-> lowY,
         bodyX |-> JsSub(x, JsDiv(bodyWidth, I(2))),
         bodyTop |-> JsMin(openY, closeY),
         bodyWidth |-> bodyWidth,
         bodyHeight |-> JsMax(I(1), JsAbs(JsSub(closeY, openY))),
         isBullish |-> candle.close >= candle.open]

GeometryFinite(g) ==
    /\ IsFinite(g.x) /\ IsFinite(g.highY) /\ IsFinite(g.lowY)
    /\ IsFinite(g.bodyX) /\ IsFinite(g.bodyTop)
    /\ IsFinite(g.bodyWidth) /\ IsFinite(g.bodyHeight)

\* variant A: priceToY(price, priceMin, priceDiff, margin.top, chartHeight)
GeometryA(kind, pr, first, i, cw, dims) ==
    LET cd == ChartDimensionsOf(dims)
        candle == Candle(kind, i)
        toY(price) == priceToY(I(price), pr.priceMin, pr.priceDiff,
                               I(cd.marginTop), I(cd.chartHeight))
    IN  CandleGeometry(kind, i, i - first, cw, toY(candle.open),
                       toY(candle.close), toY(candle.high), toY(candle.low))

\* variant B: the d3 scale over [priceMin, priceMax] with 1.25% vertical padding
GeometryB(kind, pr, first, i, cw, dims) ==
    LET cd == ChartDimensionsOf(dims)
        candle == Candle(kind, i)
        verticalPadding == JsMul(I(cd.chartHeight), <<1, 80>>)
        bottom == JsSub(I(cd.marginTop + cd.chartHeight), verticalPadding)
        top == JsAdd(I(cd.marginTop), verticalPadding)
        toY(price) == scaleLinear(pr.priceMin, pr.priceMax, bottom, top, I(price))
    IN  CandleGeometry(kind, i, i - first, cw, toY(candle.open),
                       toY(candle.close), toY(candle.high), toY(candle.low))

\* what a frame records of the candle geometry handed to the renderer: geo is
\* the geometry of each visible candle, doji the candles with open = close,
\* draws the number of stroke / fill submissions; wickEnds pairs the high and
\* the low of each candle with the pixel row its wick is drawn to
FrameRecord(kind, si, cw, dims, idx, bull, doji, geo, draws) ==
    [start |-> si, count |-> Cardinality(idx), canvasWidth |-> cw,
     width |-> dims.width, height |-> dims.height,
     draws |-> draws,
     wicks |-> Cardinality(idx),
     bullish |-> Cardinality(bull),
     bearish |-> Cardinality(idx \ bull),
     nonFinite |-> \E i \in idx : ~GeometryFinite(geo[i]),
     bodyHeights |-> {geo[i].bodyHeight : i \in idx},
     dojiHeights |-> {geo[i].bodyHeight : i \in doji},
     wickEnds |-> UNION {{<<Candle(kind, i).high, geo[i].highY>>,
                          <<Candle(kind, i).low, geo[i].lowY>>} : i \in idx}]

\* a classification in which a candle with close = open is bearish
BullishIn_Strict(kind, idx) == {i \in idx : Candle(kind, i).close > Candle(kind, i).open}

BullishIn(kind, idx) == {i \in idx : Candle(kind, i).close >= Candle(kind, i).open}

DojiIn(kind, idx) == {i \in idx : Candle(kind, i).close = Candle(kind, i).open}

\* variant A draws each candle in a Graphics of its own: one stroke for the
\* wick and one fill for the body, per candle
FrameA(kind, si, idx, cw, dims) ==
    CHOOSE frame \in
        {FrameRecord(kind, si, cw, dims, idx, BullishIn(kind, idx), DojiIn(kind, idx),
                     geo, 2 * Cardinality(idx)) :
            geo \in {[i \in idx |-> GeometryA(kind, pr, first, i, cw, dims)] :
                        pr \in {calculatePriceRange(kind, idx)},
                        first \in {SetMin(idx)}}} : TRUE

\* the stroke and fill calls of variant B: wickLines, bullishBodies and
\* bearishBodies are each submitted once, if not empty
BatchedDraws(idx, bull) ==
    (IF idx # {} THEN 1 ELSE 0) + (IF bull # {} THEN 1 ELSE 0)
    + (IF idx \ bull # {} THEN 1 ELSE 0)

FrameB(kind, si, idx, cw, dims) ==
    CHOOSE frame \in
        {FrameRecord(kind, si, cw, dims, idx, BullishIn(kind, idx), DojiIn(kind, idx),
                     geo, BatchedDraws(idx, BullishIn(kind, idx))) :
            geo \in {[i \in idx |-> GeometryB(kind, pr, first, i, cw, dims)] :
                        pr \in {calculatePriceRange(kind, idx)},
                        first \in {SetMin(idx)}}} : TRUE

(***************************************************************************)
(* drawChart                                                               *)
(*                                                                         *)
(* DrawA / DrawB give the outcome of one drawChart call: result is         *)
(*   "nodata"   returned at the data-loaded check                          *)
(*   "empty"    returned at visibleData.length === 0                       *)
(*   "skipped"  returned at the needsRedraw / lastDrawnRange check         *)
(*   "drawn"    ran to the end and rendered the stage                      *)
(* deferred: the metrics record is handed over in an animation-frame       *)
(* callback, not before drawChart returns.                                 *)
(* sc, scr: the display list and the canvas before the call; leak: the     *)
(* drawables the call takes off the display list without releasing them.   *)
(***************************************************************************)
\* an early return that has put a candle batch on the display list all the same
Unchanged_BatchAdded(result, sc, scr, nr, ldr, pool, dq) ==
    [result |-> result, scene |-> [bg |-> 1, gfx |-> sc.gfx + 1, frame |-> sc.frame],
     screen |-> scr, leak |-> 0,
     needsRedraw |-> nr, lastDrawnRange |-> ldr, pool |-> pool, queue |-> dq,
     deferred |-> FALSE]

Unchanged(result, sc, scr, nr, ldr, pool, dq) ==
    [result |-> result, scene |-> sc, screen |-> scr, leak |-> 0,
     needsRedraw |-> nr, lastDrawnRange |-> ldr, pool |-> pool, queue |-> dq,
     deferred |-> FALSE]

\* variant B
DrawB(kind, len, loaded, sc, scr, si, mc, cw, nr, ldr, dims, pool) ==
    LET idx == VisibleIndices(si, mc, len)
        currentRange == <<si, EndIndex(si, mc, len)>>
        \* removeChildren().forEach(child => child.destroy()): the background
        \* and the candle container are destroyed; the masterGraphics inside
        \* the candle container is not (destroy() is called without children)
        leakCleanup == sc.gfx
        frame == FrameB(kind, si, idx, cw, dims)
    IN  IF ~loaded THEN Unchanged("nodata", sc, scr, nr, ldr, pool, 0)
        ELSE IF idx = {} THEN Unchanged("empty", sc, scr, nr, ldr, pool, 0)
        ELSE IF ~nr /\ currentRange = ldr
        THEN \* "Skipping redraw - using cached render": the children are
             \* destroyed and the first background is in place already
             [result |-> "skipped",
              scene |-> [bg |-> 1, gfx |-> 0, frame |-> NoFrame],
              screen |-> scr, leak |-> leakCleanup,
              needsRedraw |-> nr, lastDrawnRange |-> ldr, pool |-> pool,
              queue |-> 0, deferred |-> FALSE]
        ELSE \* bulk removeChildren() drops the first background without
             \* destroying it; a second background, the candle container and
             \* its masterGraphics are added; the stage is rendered
             [result |-> "drawn",
              scene |-> [bg |-> 1, gfx |-> 1, frame |-> frame],
              screen |-> frame, leak |-> leakCleanup,
              needsRedraw |-> FALSE, lastDrawnRange |-> currentRange,
              pool |-> IF pool = 0 THEN 2 * maxPoolSize ELSE pool, queue |-> 0,
              \* onPerformanceUpdate is called before drawChart returns
              deferred |-> FALSE]

\* variant A; dq is the number of drawables waiting for a deferred destroy
DrawA(kind, len, loaded, sc, scr, si, mc, cw, nr, ldr, dims, dq) ==
    LET idx == VisibleIndices(si, mc, len)
        children == sc.bg + sc.gfx
        frame == FrameA(kind, si, idx, cw, dims)
    IN  IF ~loaded THEN Unchanged("nodata", sc, scr, nr, ldr, 0, dq)
        ELSE IF idx = {} THEN Unchanged("empty", sc, scr, nr, ldr, 0, dq)
        ELSE \* smoothRender: more than 30 children are removed at once and
             \* destroyed in the next animation frame, fewer are destroyed now
             [result |-> "drawn",
              scene |-> [bg |-> 1, gfx |-> Cardinality(idx), frame |-> frame],
              screen |-> frame, leak |-> 0,
              needsRedraw |-> nr, lastDrawnRange |-> ldr, pool |-> 0,
              queue |-> IF children > SmoothRenderLimit THEN dq + children ELSE dq,
              \* requestAnimationFrame(() => { ... onPerformanceUpdate(...) })
              deferred |-> TRUE]

(***************************************************************************)
(* getRafThrottled(key, func, delay): the functions it makes wrap the      *)
(* pointer-move, wheel and resize handlers.                                *)
(***************************************************************************)
\* the delays the components pass: 16 and 8 for pointer-move and wheel, 100
\* for resize
ThrottledHandlers ==
    {[key |-> "mouseMove", delay |-> 16], [key |-> "wheel", delay |-> 16],
     [key |-> "mouseMove", delay |-> 8], [key |-> "wheel", delay |-> 8],
     [key |-> "resize", delay |-> 100]}

\* handleMouseMove of ManualViewportStockChart is attached as it is, with no
\* throttle around it
ManualHandler == [key |-> "manualMouseMove", delay |-> 0]

\* no throttled function has been called
ThrottleIdle ==
    /\ clock = StartClock
    /\ lastCall = 0
    /\ rafId = 0
    /\ rafQueue = {}
    /\ lastEvent = 0
    /\ lastArrival = 0
    /\ burst = 0
    /\ inFrame = 0
    /\ ranInFrame = 0
    /\ processed = 0

\* a call that passes every event on
Accepts_Always(now) == TRUE

\* if (now - lastCall >= delay)
Accepts(now) == now - lastCall >= throttled.delay

\* if (rafId) cancelAnimationFrame(rafId): cancelling a callback that has run
\* already does nothing
CancelPending == IF rafId # 0 THEN {r \in rafQueue : r.id # rafId} ELSE rafQueue

\* the function returned by getRafThrottled is called with a new event
ThrottledCall ==
    /\ throttled \in ThrottledHandlers
    /\ lastEvent < MaxEvents
    /\ lastEvent' = lastEvent + 1
    /\ lastArrival' = clock
    /\ burst' = burst + 1
    /\ IF Accepts(clock)
       THEN /\ lastCall' = clock
            /\ rafId' = lastEvent + 1
            /\ rafQueue' = CancelPending \cup {[id |-> lastEvent + 1, args |-> lastEvent + 1]}
       ELSE UNCHANGED <<lastCall, rafId, rafQueue>>
    /\ UNCHANGED <<throttled, clock, inFrame, ranInFrame, processed>>
    /\ UNCHANGED <<chartVars, lifeVars, utilVars, twinVars, manualVars>>

\* the event a run of func(...args) processes: the pointer and wheel handlers
\* read their event argument, handleResize reads window.innerWidth and
\* window.innerHeight as they are when it runs
ProcessedBy(r) == IF throttled.key = "resize" THEN lastEvent ELSE r.args

\* handleMouseMove of ManualViewportStockChart is called with a new event: the
\* body runs at once and, if the camera moved, requests a frame for drawChart
ManualMouseMove ==
    /\ throttled = ManualHandler
    /\ lastEvent < MaxEvents
    /\ lastEvent' = lastEvent + 1
    /\ lastArrival' = clock
    /\ burst' = burst + 1
    /\ ranInFrame' = ranInFrame + 1
    /\ processed' = lastEvent + 1
    /\ \E cameraMoved \in BOOLEAN :
          rafQueue' = IF cameraMoved
                      THEN rafQueue \cup {[id |-> lastEvent + 1, args |-> 0]}
                      ELSE rafQueue
    /\ UNCHANGED <<throttled, clock, lastCall, rafId, inFrame>>
    /\ UNCHANGED <<chartVars, lifeVars, utilVars, twinVars, manualVars>>

\* an animation frame: the requested callbacks run (those of a throttled
\* function run the handler body, those of ManualViewportStockChart drawChart)
AnimationFrame ==
    /\ ranInFrame' = IF throttled = ManualHandler THEN 0 ELSE Cardinality(rafQueue)
    /\ processed' = IF rafQueue = {} \/ throttled = ManualHandler THEN processed
                    ELSE ProcessedBy(CHOOSE r \in rafQueue : \A q \in rafQueue : q.id <= r.id)
    /\ rafQueue' = {}
    /\ inFrame' = burst
    /\ burst' = 0
    /\ UNCHANGED <<throttled, clock, lastCall, rafId, lastEvent, lastArrival>>
    /\ UNCHANGED <<chartVars, lifeVars, utilVars, twinVars, manualVars>>

\* time passes
Tick ==
    /\ clock + TickMs <= MaxClock
    /\ clock' = clock + TickMs
    /\ UNCHANGED <<throttled, lastCall, rafId, rafQueue, lastEvent, lastArrival,
                   burst, inFrame, ranInFrame, processed>>
    /\ UNCHANGED <<chartVars, lifeVars, utilVars, twinVars, manualVars>>

(***************************************************************************)
(* Two StockChart components on one page: their viewState objects          *)
(***************************************************************************)
Instances == {1, 2}

\* the dataset both components load, and the window they size themselves to
TwinDataLength == 14

TwinWindow == <<250, 275>>

TwinChartWidth == ChartDimensionsOf(DimensionsOf(TwinWindow)).chartWidth

\* a viewState that is one object of the module, shared by the components
ViewOf_Singleton(k) == 1

\* the viewState the handlers of component k close over: useRef makes one
\* object per mounted component
ViewOf(k) == k

\* viewState.current after loadData, as far as the handlers use it
TwinLoaded ==
    [startIndex |-> MaxInt(0, TwinDataLength - maxCandlesToShow),
     canvasWidth |-> I(DefaultCanvasWidth),
     maxCandles |-> MaxCandlesFor(TwinChartWidth, I(DefaultCanvasWidth)),
     isDragging |-> FALSE, lastMouseX |-> 0]

NothingShown == <<-1, I(0)>>

TwinIdle ==
    /\ views = [k \in Instances |-> TwinLoaded]
    /\ shown = [k \in Instances |-> NothingShown]
    /\ op = [instance |-> 0, kind |-> "none"]

(***************************************************************************)
(* ManualViewportStockChart: a camera over world coordinates, in which      *)
(* candle i spans [i * canvasWidth, (i + 1) * canvasWidth).                *)
(***************************************************************************)
\* the manualViewport ref at mount
ManualViewportAtMount ==
    [cameraX |-> I(0), zoomX |-> I(3), canvasWidth |-> 8,
     isDragging |-> FALSE, lastMouseX |-> 0]

NoManualOps == [drags |-> 0, wheels |-> 0]

\* no ManualViewportStockChart is on the page
ManualIdle ==
    /\ manualViewport = ManualViewportAtMount
    /\ manualData = [length |-> 0, width |-> 0]
    /\ manualOps = NoManualOps

(***************************************************************************)
(* Initial state: the component is mounted, the PIXI application is        *)
(* initialised and its handlers are attached; the data has not arrived.    *)
(***************************************************************************)
InitChartFor(lengths, kinds, windows) ==
    /\ dataLength \in lengths
    /\ dataKind \in kinds
    /\ dataLoaded = FALSE
    /\ win \in windows
    /\ dimensions = DimensionsOf(win)
    /\ startIndex = 0
    /\ canvasWidth = I(DefaultCanvasWidth)
    /\ chartDimensions = ChartDimensionsOf(DimensionsOf(win))
    /\ maxCandles = MaxCandlesFor(ChartDimensionsOf(DimensionsOf(win)).chartWidth,
                                  I(DefaultCanvasWidth))
    /\ isDragging = FALSE
    /\ lastMouseX = 0
    /\ needsRedraw = TRUE
    /\ lastDrawnRange = <<-1, -1>>
    /\ scene = EmptyScene
    /\ screen = NoFrame
    /\ leaked = 0
    /\ orphaned = FALSE
    /\ poolSize = 0
    /\ destroyQueue = 0
    /\ drawCalls = 0
    /\ rafDraws = {}
    /\ timerDraws = {}
    /\ pointerOver = FALSE
    /\ rendered = 0
    /\ metrics = 0
    /\ metricsPending = 0

InitChart == InitChartFor(DataLengths, DataKinds, WindowSizes)

\* the first run of the initialisation effect has completed
Init ==
    /\ InitChart
    /\ mounted = TRUE
    /\ effectRuns = 1
    /\ pending = {}
    /\ appRef = 1
    /\ attached = {1}
    /\ memoryTasks = TRUE
    /\ throttled = [key |-> "mouseMove", delay |-> 16]
    /\ ThrottleIdle
    /\ calc = NoCall
    /\ TwinIdle
    /\ ManualIdle

Draw(v, loaded, sc, scr, si, mc, cw, nr, dims) ==
    IF v = "A"
    THEN DrawA(dataKind, dataLength, loaded, sc, scr, si, mc, cw, nr,
               lastDrawnRange, dims, destroyQueue)
    ELSE DrawB(dataKind, dataLength, loaded, sc, scr, si, mc, cw, nr,
               lastDrawnRange, dims, poolSize)

\* a drawChart that reports every call that got past the data-loaded check
MetricsRecords_EveryCall(result) == IF result # "nodata" THEN 1 ELSE 0

\* the records one drawChart call makes for onPerformanceUpdate: the call is
\* the last statement of drawChart, behind every early return
MetricsRecords(result) == IF result = "drawn" THEN 1 ELSE 0

\* the state left by a handler whose drawChart call ended as r
Apply(r) ==
    /\ r.result # "nodata" => drawCalls < MaxDrawCalls
    /\ scene' = r.scene
    /\ screen' = r.screen
    /\ leaked' = leaked + r.leak
    /\ needsRedraw' = r.needsRedraw
    /\ lastDrawnRange' = r.lastDrawnRange
    /\ poolSize' = r.pool
    /\ destroyQueue' = r.queue
    /\ drawCalls' = IF r.result # "nodata" THEN drawCalls + 1 ELSE drawCalls
    /\ rendered' = IF r.result = "drawn" THEN rendered + 1 ELSE rendered
    /\ metrics' = IF r.deferred THEN metrics ELSE metrics + MetricsRecords(r.result)
    /\ metricsPending' = IF r.deferred THEN metricsPending + MetricsRecords(r.result)
                         ELSE metricsPending

\* the state left by a handler that does not reach drawChart
NoDraw ==
    /\ UNCHANGED <<scene, screen, leaked, needsRedraw, lastDrawnRange, poolSize,
                   destroyQueue, drawCalls, metricVars>>

(***************************************************************************)
(* React commit: the init effect's cleanup tears the application down and  *)
(* the effect builds a new one, sizes it from the window and draws; the    *)
(* data effect arms the 100 ms redraw timer.                               *)
(***************************************************************************)
Reinit(v, loaded, si) ==
    LET dims == DimensionsOf(win)
        cd == ChartDimensionsOf(dims)
        mc == MaxCandlesFor(cd.chartWidth, canvasWidth)
    IN  /\ dimensions' = dims
        /\ chartDimensions' = cd
        /\ maxCandles' = mc
        \* stage.removeChildren() before stage.destroy({children: true}): the
        \* chart container and what it holds are detached, not destroyed
        /\ orphaned' = (orphaned \/ scene.bg + scene.gfx > 0)
        /\ timerDraws' = IF loaded THEN timerDraws \cup {dims} ELSE timerDraws
        /\ \E r \in {Draw(v, loaded, EmptyScene, NoFrame, si, mc, canvasWidth,
                          needsRedraw, dims)} : Apply(r)

\* getData() resolves: loadData fills stockData, places the window on the
\* latest candles and sets dataLoaded; React commits
LoadData(v) ==
    /\ UNCHANGED <<lifeVars, throttleVars, utilVars, twinVars, manualVars>>
    /\ ~dataLoaded
    /\ dataLoaded' = TRUE
    /\ LET actualMaxCandles == MaxCandlesFor(win[1] - YAxisWidth, canvasWidth)
           si == IF v = "A" THEN MaxInt(0, dataLength - maxCandlesToShow)
                 ELSE MaxInt(0, dataLength - actualMaxCandles)
       IN  /\ startIndex' = si
           /\ Reinit(v, TRUE, si)
    /\ UNCHANGED <<dataLength, dataKind, win, canvasWidth, isDragging,
                   lastMouseX, rafDraws, pointerOver>>

\* the dimensions handed to setDimensions are committed
Commit(v) ==
    /\ UNCHANGED <<lifeVars, throttleVars, utilVars, twinVars, manualVars>>
    /\ dimensions # DimensionsOf(win)
    /\ Reinit(v, dataLoaded, startIndex)
    /\ UNCHANGED <<dataVars, win, startIndex, canvasWidth, isDragging,
                   lastMouseX, rafDraws, pointerOver>>

\* handleResize: the window takes the size w
Resize(v, w) ==
    /\ UNCHANGED <<lifeVars, throttleVars, utilVars, twinVars, manualVars>>
    /\ w # win
    /\ win' = w
    /\ LET cd == ChartDimensionsOf(DimensionsOf(w))
           mc == MaxCandlesFor(cd.chartWidth, canvasWidth)
       IN  /\ chartDimensions' = cd
           /\ maxCandles' = mc
           \* renderer.resize clears the canvas; drawChart still closes over
           \* the dimensions of the last commit
           /\ \E r \in {Draw(v, dataLoaded, scene, NoFrame, startIndex, mc,
                             canvasWidth, needsRedraw, dimensions)} :
                 Apply(r)
    /\ UNCHANGED <<dataVars, dimensions, startIndex, canvasWidth, isDragging,
                   lastMouseX, orphaned, rafDraws, timerDraws, pointerOver>>

\* the 100 ms timer of the data effect fires
TimerDraw(v) ==
    /\ UNCHANGED <<lifeVars, throttleVars, utilVars, twinVars, manualVars>>
    /\ \E d \in timerDraws :
          /\ timerDraws' = timerDraws \ {d}
          /\ \E r \in {Draw(v, TRUE, scene, screen, startIndex, maxCandles,
                            canvasWidth, needsRedraw, d)} : Apply(r)
    /\ UNCHANGED <<dataVars, win, dimensions, startIndex, canvasWidth,
                   maxCandles, isDragging, lastMouseX, chartDimensions,
                   orphaned, rafDraws, pointerOver>>

(***************************************************************************)
(* Pointer handlers                                                        *)
(***************************************************************************)
handleMouseDown(x) ==
    /\ UNCHANGED <<lifeVars, throttleVars, utilVars, twinVars, manualVars>>
    /\ pointerOver
    /\ isDragging' = TRUE
    /\ lastMouseX' = x
    /\ NoDraw
    /\ UNCHANGED <<dataVars, win, dimensions, startIndex, canvasWidth,
                   maxCandles, chartDimensions, orphaned, rafDraws, timerDraws,
                   pointerOver>>

\* on the canvas and on the document
handleMouseUp ==
    /\ UNCHANGED <<lifeVars, throttleVars, utilVars, twinVars, manualVars>>
    /\ isDragging' = FALSE
    /\ NoDraw
    /\ UNCHANGED <<dataVars, win, dimensions, startIndex, canvasWidth,
                   maxCandles, lastMouseX, chartDimensions, orphaned, rafDraws,
                   timerDraws, pointerOver>>

\* a mutant of handleMouseLeave: leaving the canvas ends the drag
handleMouseLeave_EndsDrag == FALSE

\* handleMouseLeave hides the crosshair: the drag flag after the handler is the
\* drag flag before it
handleMouseLeave == isDragging

\* the pointer leaves the canvas
MouseLeave ==
    /\ UNCHANGED <<lifeVars, throttleVars, utilVars, twinVars, manualVars>>
    /\ pointerOver
    /\ pointerOver' = FALSE
    /\ isDragging' = handleMouseLeave
    /\ NoDraw
    /\ UNCHANGED <<dataVars, win, dimensions, startIndex, canvasWidth,
                   maxCandles, lastMouseX, chartDimensions, orphaned, rafDraws,
                   timerDraws>>

\* a pan with no upper limit on the start index
PanTarget_NoUpperLimit(x) ==
    MaxInt(0, startIndex - Round(JsDiv(I(x - lastMouseX), canvasWidth)))

\* the start index a drag to clientX x asks for
PanTarget(x) ==
    LET deltaX == x - lastMouseX
        candlesMoved == Round(JsDiv(I(deltaX), canvasWidth))
    IN  MaxInt(0, MinInt(dataLength - maxCandles, startIndex - candlesMoved))

\* a pan that redraws whenever the pointer moved by a candle or more
PanMoves_NoIndexCheck(x) ==
    /\ isDragging
    /\ Abs(Round(JsDiv(I(x - lastMouseX), canvasWidth))) > 0

PanMoves(x) ==
    /\ isDragging
    /\ Abs(Round(JsDiv(I(x - lastMouseX), canvasWidth))) > 0
    /\ PanTarget(x) # startIndex

\* handleMouseMove: pans while dragging.  Before the data has arrived the pan
\* branch throws on stockData.current.length and leaves the state as it was
handleMouseMove(v, x) ==
    /\ UNCHANGED <<lifeVars, throttleVars, utilVars, twinVars, manualVars>>
    /\ pointerOver' = TRUE
    /\ IF dataLoaded /\ PanMoves(x)
       THEN /\ startIndex' = PanTarget(x)
            /\ lastMouseX' = x
            /\ \E r \in {Draw(v, dataLoaded, scene, screen, PanTarget(x),
                              maxCandles, canvasWidth, (v = "B") \/ needsRedraw,
                              dimensions)} : Apply(r)
       ELSE /\ NoDraw
            /\ UNCHANGED <<startIndex, lastMouseX>>
    /\ UNCHANGED <<dataVars, win, dimensions, canvasWidth, maxCandles,
                   isDragging, chartDimensions, orphaned, rafDraws, timerDraws>>

(***************************************************************************)
(* Wheel handlers                                                          *)
(***************************************************************************)
ZoomFactors == {ZoomIn, ZoomOut}

\* variant A: fixed limits 4 and 100, "centre" anchor, immediate draw
WheelWidthA(zoomFactor) ==
    constrainCandleWidth(canvasWidth, zoomFactor, I(MinWidthA), I(MaxWidth), I(0), I(0))

WheelStartA(mc) ==
    LET centerIndex == JsAdd(I(startIndex), JsDiv(I(mc), I(2)))
        first == MaxInt(0, Floor(JsSub(centerIndex, JsDiv(I(mc), I(2)))))
    IN  IF dataLoaded THEN MinInt(dataLength - mc, first) ELSE first

handleWheelA(zoomFactor) ==
    LET newCandleWidth == WheelWidthA(zoomFactor)
        mc == MaxCandlesFor(chartDimensions.chartWidth, newCandleWidth)
    IN  /\ UNCHANGED <<lifeVars, throttleVars, utilVars, twinVars, manualVars>>
        /\ pointerOver
        /\ newCandleWidth[2] <= MaxDenominator
        /\ IF newCandleWidth # canvasWidth
           THEN /\ canvasWidth' = newCandleWidth
                /\ maxCandles' = mc
                /\ startIndex' = WheelStartA(mc)
                \* before the data has arrived the handler throws on
                \* stockData.current.length, after the first three assignments
                /\ IF dataLoaded
                   THEN \E r \in {Draw("A", dataLoaded, scene, screen,
                                        WheelStartA(mc), mc, newCandleWidth,
                                        needsRedraw, dimensions)} :
                            Apply(r)
                   ELSE NoDraw
           ELSE /\ NoDraw
                /\ UNCHANGED <<canvasWidth, maxCandles, startIndex>>
        /\ UNCHANGED <<dataVars, win, dimensions, isDragging, lastMouseX,
                       chartDimensions, orphaned, rafDraws, timerDraws, pointerOver>>

\* variant B: dynamic minimum, right anchor, draw in the next animation frame
WheelWidthB(zoomFactor) ==
    constrainCandleWidth(canvasWidth, zoomFactor, MinWidthB, I(MaxWidth),
                         I(chartDimensions.chartWidth), I(dataLength))

WheelStartB(mc) ==
    LET currentEndIndex == startIndex + maxCandles - 1
    IN  MaxInt(0, currentEndIndex - mc + 1)

\* The handler body runs in an animation frame; the draw it asks for runs in
\* the next one, before any later wheel body.  Before the data has arrived
\* the handler throws on its first statement.
handleWheelB(zoomFactor) ==
    LET newCandleWidth == WheelWidthB(zoomFactor)
        mc == MaxCandlesFor(chartDimensions.chartWidth, newCandleWidth)
    IN  /\ UNCHANGED <<lifeVars, throttleVars, utilVars, twinVars, manualVars>>
        /\ pointerOver
        /\ dataLoaded
        /\ rafDraws = {}
        /\ newCandleWidth[2] <= MaxDenominator
        /\ IF newCandleWidth # canvasWidth
           THEN /\ canvasWidth' = newCandleWidth
                /\ maxCandles' = mc
                /\ startIndex' = WheelStartB(mc)
                /\ needsRedraw' = TRUE
                /\ rafDraws' = rafDraws \cup {dimensions}
           ELSE UNCHANGED <<canvasWidth, maxCandles, startIndex, needsRedraw,
                            rafDraws>>
        /\ UNCHANGED <<dataVars, win, dimensions, isDragging, lastMouseX,
                       chartDimensions, lastDrawnRange, scene, screen, leaked,
                       orphaned, poolSize, destroyQueue, drawCalls, timerDraws,
                       pointerOver, metricVars>>

\* requestAnimationFrame(() => drawChart()) of handleWheel, variant B
RafDraw ==
    /\ UNCHANGED <<lifeVars, throttleVars, utilVars, twinVars, manualVars>>
    /\ \E d \in rafDraws :
          /\ rafDraws' = rafDraws \ {d}
          /\ \E r \in {Draw("B", TRUE, scene, screen, startIndex, maxCandles,
                            canvasWidth, needsRedraw, d)} : Apply(r)
    /\ UNCHANGED <<dataVars, win, dimensions, startIndex, canvasWidth,
                   maxCandles, isDragging, lastMouseX, chartDimensions,
                   orphaned, timerDraws, pointerOver>>

\* the deferred destroy calls of smoothRender run, variant A
DeferredDestroy ==
    /\ UNCHANGED <<lifeVars, throttleVars, utilVars, twinVars, manualVars>>
    /\ destroyQueue > 0
    /\ destroyQueue' = 0
    /\ UNCHANGED <<dataVars, win, dimensions, viewVars, scene, screen, leaked,
                   orphaned, poolSize, drawCalls, rafDraws, timerDraws, pointerOver,
                   metricVars>>

\* the animation-frame callback drawChart requested after rendering runs, variant
\* A: it hands the record of that frame to onPerformanceUpdate
MetricsFrame ==
    /\ UNCHANGED <<lifeVars, throttleVars, utilVars, twinVars, manualVars>>
    /\ metricsPending > 0
    /\ metricsPending' = metricsPending - 1
    /\ metrics' = metrics + 1
    /\ UNCHANGED <<dataVars, win, dimensions, viewVars, scene, screen, leaked,
                   orphaned, poolSize, destroyQueue, drawCalls, rafDraws,
                   timerDraws, pointerOver, rendered>>

(***************************************************************************)
(* Specifications of the two component versions                            *)
(***************************************************************************)
\* In SpecA and SpecB an effect run completes before the next event: tearing
\* the application down and building the next one is one step (Reinit)
NextA ==
    \/ LoadData("A")
    \/ Commit("A")
    \/ \E w \in WindowSizes : Resize("A", w)
    \/ TimerDraw("A")
    \/ \E x \in MouseXs : handleMouseDown(x)
    \/ handleMouseUp
    \/ MouseLeave
    \/ \E x \in MouseXs : handleMouseMove("A", x)
    \/ \E z \in ZoomFactors : handleWheelA(z)
    \/ DeferredDestroy
    \/ MetricsFrame

NextB ==
    \/ LoadData("B")
    \/ Commit("B")
    \/ \E w \in WindowSizes : Resize("B", w)
    \/ TimerDraw("B")
    \/ \E x \in MouseXs : handleMouseDown(x)
    \/ handleMouseUp
    \/ MouseLeave
    \/ \E x \in MouseXs : handleMouseMove("B", x)
    \/ \E z \in ZoomFactors : handleWheelB(z)
    \/ RafDraw

SpecA == Init /\ [][NextA]_vars

SpecB == Init /\ [][NextB]_vars

(***************************************************************************)
(* Life cycle of the initialisation effect (both variants): its cleanup,   *)
(* the asynchronous initPixi, and the cleanup tasks run on unmount.        *)
(***************************************************************************)
\* the effect's cleanup: the listeners removed are those stored on the
\* application that is in appRef.current when the cleanup runs
EffectCleanup ==
    /\ attached' = IF appRef # 0 THEN attached \ {appRef} ELSE attached
    /\ appRef' = 0

\* a dependency of the effect changed (dimensions, drawChart): the cleanup of
\* the last run, then a new run that starts initPixi
Rerender ==
    /\ mounted
    /\ effectRuns < MaxEffects
    /\ EffectCleanup
    /\ effectRuns' = effectRuns + 1
    /\ pending' = pending \cup {effectRuns + 1}
    /\ UNCHANGED <<mounted, memoryTasks>>
    /\ UNCHANGED <<chartVars, throttleVars, utilVars, twinVars, manualVars>>

\* app.init of run g resolves: the rest of initPixi runs without interruption
InitResolve(g) ==
    /\ g \in pending
    /\ pending' = pending \ {g}
    /\ appRef' = g
    /\ attached' = attached \cup {g}
    /\ memoryTasks' = TRUE
    /\ UNCHANGED <<mounted, effectRuns>>
    /\ UNCHANGED <<chartVars, throttleVars, utilVars, twinVars, manualVars>>

\* unmount: the cleanup tasks run first (the 'pixi-app' task sets
\* appRef.current to null before the 'event-listeners' task reads it), then
\* the cleanup of the initialisation effect
Unmount ==
    /\ mounted
    /\ mounted' = FALSE
    /\ IF memoryTasks
       THEN /\ appRef' = 0
            /\ attached' = attached
       ELSE EffectCleanup
    /\ memoryTasks' = FALSE
    /\ UNCHANGED <<effectRuns, pending>>
    /\ UNCHANGED <<chartVars, throttleVars, utilVars, twinVars, manualVars>>

InitLife ==
    /\ InitChart
    /\ dataLength = 6
    /\ dataKind = "mixed"
    /\ win = <<250, 275>>
    /\ mounted = TRUE
    /\ effectRuns = 1
    /\ pending = {1}
    /\ appRef = 0
    /\ attached = {}
    /\ memoryTasks = FALSE
    /\ throttled = [key |-> "mouseMove", delay |-> 16]
    /\ ThrottleIdle
    /\ calc = NoCall
    /\ TwinIdle
    /\ ManualIdle

NextLife ==
    \/ Rerender
    \/ \E g \in pending : InitResolve(g)
    \/ Unmount

SpecLife == InitLife /\ [][NextLife]_vars

(***************************************************************************)
(* The batched renderer on the three candles of the batch scenario         *)
(***************************************************************************)
InitBatch ==
    /\ InitChartFor({BatchDataLength}, BatchDataKinds, WindowSizes)
    /\ mounted = TRUE
    /\ effectRuns = 1
    /\ pending = {}
    /\ appRef = 1
    /\ attached = {1}
    /\ memoryTasks = TRUE
    /\ throttled = [key |-> "mouseMove", delay |-> 16]
    /\ ThrottleIdle
    /\ calc = NoCall
    /\ TwinIdle
    /\ ManualIdle

SpecBatch == InitBatch /\ [][NextB]_vars

(***************************************************************************)
(* Panning a dataset of 100 candles in a window in which 72 fit            *)
(***************************************************************************)
PanDataLength == 100

PanWindow == <<1490, 275>>

InitPan ==
    /\ InitChartFor({PanDataLength}, {"mixed"}, {PanWindow})
    /\ mounted = TRUE
    /\ effectRuns = 1
    /\ pending = {}
    /\ appRef = 1
    /\ attached = {1}
    /\ memoryTasks = TRUE
    /\ throttled = [key |-> "mouseMove", delay |-> 16]
    /\ ThrottleIdle
    /\ calc = NoCall
    /\ TwinIdle
    /\ ManualIdle

NextPan ==
    \/ LoadData("A")
    \/ TimerDraw("A")
    \/ \E x \in MouseXs : handleMouseDown(x)
    \/ handleMouseUp
    \/ MouseLeave
    \/ \E x \in MouseXs : handleMouseMove("A", x)
    \/ DeferredDestroy
    \/ MetricsFrame

SpecPan == InitPan /\ [][NextPan]_vars

(***************************************************************************)
(* One throttled function, its events and the animation frames             *)
(***************************************************************************)
InitThrottle ==
    /\ InitChart
    /\ dataLength = 6
    /\ dataKind = "mixed"
    /\ win = <<250, 275>>
    /\ mounted = TRUE
    /\ effectRuns = 1
    /\ pending = {}
    /\ appRef = 1
    /\ attached = {1}
    /\ memoryTasks = TRUE
    /\ throttled \in ThrottledHandlers \cup {ManualHandler}
    /\ ThrottleIdle
    /\ calc = NoCall
    /\ TwinIdle
    /\ ManualIdle

NextThrottle ==
    \/ ThrottledCall
    \/ ManualMouseMove
    \/ AnimationFrame
    \/ Tick

SpecThrottle == InitThrottle /\ [][NextThrottle]_vars

(***************************************************************************)
(* The coordinate and price utilities, called on their own                 *)
(***************************************************************************)
\* the largest data index handed to indexToX
MaxIndex == 6

\* candle widths: the limits 0.01, 0.1, 4 and 100 of the zoom, the width at
\* mount, and widths that do not divide a pixel evenly
UtilWidths == {<<1, 100>>, <<1, 10>>, <<1, 3>>, I(4), I(20), <<100, 3>>, I(100)}

\* left margins, in pixels
UtilMargins == {-5, 0, 60}

UtilPrices == {I(-3), I(0), <<197, 2>>, I(100), <<1051, 10>>}

UtilPriceMins == {I(-1), I(0), <<492, 5>>}

\* priceDiff # 0
UtilPriceDiffs == {I(-2), I(1), <<36, 5>>}

UtilChartTops == {I(0), I(10)}

\* chartHeight # 0
UtilChartHeights == {I(-50), <<1, 3>>, I(200)}

\* the visible slices handed to calculatePriceRange: the first count candles
UtilSliceLengths == 0..4

\* xToIndex(indexToX(index, canvasWidth, marginLeft), canvasWidth, marginLeft)
IndexRoundTrip ==
    /\ \E index \in 0..MaxIndex, cw \in UtilWidths, marginLeft \in UtilMargins :
          calc' = [fn |-> "index", index |-> index, canvasWidth |-> cw,
                   marginLeft |-> marginLeft,
                   x |-> indexToX(index, cw, marginLeft),
                   back |-> xToIndex(indexToX(index, cw, marginLeft), cw, marginLeft)]
    /\ UNCHANGED <<chartVars, lifeVars, throttleVars, twinVars, manualVars>>

\* yToPrice(priceToY(price, ...), ...)
PriceRoundTrip ==
    /\ \E price \in UtilPrices, priceMin \in UtilPriceMins,
          priceDiff \in UtilPriceDiffs, chartTop \in UtilChartTops,
          chartHeight \in UtilChartHeights :
          calc' = [fn |-> "price", price |-> price, priceMin |-> priceMin,
                   priceDiff |-> priceDiff, chartTop |-> chartTop,
                   chartHeight |-> chartHeight,
                   y |-> priceToY(price, priceMin, priceDiff, chartTop, chartHeight),
                   back |-> yToPrice(priceToY(price, priceMin, priceDiff, chartTop,
                                              chartHeight),
                                     priceMin, priceDiff, chartTop, chartHeight)]
    /\ UNCHANGED <<chartVars, lifeVars, throttleVars, twinVars, manualVars>>

\* calculatePriceRange(visibleData) on the first count candles of a dataset
PriceRange ==
    /\ \E kind \in BatchDataKinds \cup DataKinds, count \in UtilSliceLengths :
          calc' = [fn |-> "range", kind |-> kind, count |-> count,
                   range |-> calculatePriceRange(kind, 0..(count - 1))]
    /\ UNCHANGED <<chartVars, lifeVars, throttleVars, twinVars, manualVars>>

InitUtil ==
    /\ InitChart
    /\ dataLength = 6
    /\ dataKind = "mixed"
    /\ win = <<250, 275>>
    /\ mounted = TRUE
    /\ effectRuns = 1
    /\ pending = {}
    /\ appRef = 1
    /\ attached = {1}
    /\ memoryTasks = TRUE
    /\ throttled = [key |-> "mouseMove", delay |-> 16]
    /\ ThrottleIdle
    /\ calc = NoCall
    /\ TwinIdle
    /\ ManualIdle

NextUtil ==
    \/ IndexRoundTrip
    \/ PriceRoundTrip
    \/ PriceRange

SpecUtil == InitUtil /\ [][NextUtil]_vars

(***************************************************************************)
(* Two StockChart components mounted on one page (variant A), with the     *)
(* data loaded.  Each canvas has its own listeners; both components add a  *)
(* mouseup listener to the document.                                       *)
(***************************************************************************)
\* drawChart of component k renders the view v on the canvas of k
TwinDraw(k, v) == shown' = [shown EXCEPT ![k] = <<v.startIndex, v.canvasWidth>>]

TwinMouseDown(k, x) ==
    /\ views' = [views EXCEPT ![ViewOf(k)] =
                    [@ EXCEPT !.isDragging = TRUE, !.lastMouseX = x]]
    /\ op' = [instance |-> k, kind |-> "other"]
    /\ UNCHANGED shown
    /\ UNCHANGED <<chartVars, lifeVars, throttleVars, utilVars, manualVars>>

\* the mousemove handler of component k
TwinMouseMove(k, x) ==
    LET v == views[ViewOf(k)]
        moved == Round(JsDiv(I(x - v.lastMouseX), v.canvasWidth))
        newStartIndex ==
            MaxInt(0, MinInt(TwinDataLength - v.maxCandles, v.startIndex - moved))
        after == [v EXCEPT !.startIndex = newStartIndex, !.lastMouseX = x]
    IN  /\ IF v.isDragging /\ Abs(moved) > 0 /\ newStartIndex # v.startIndex
           THEN /\ views' = [views EXCEPT ![ViewOf(k)] = after]
                /\ TwinDraw(k, after)
                /\ op' = [instance |-> k, kind |-> "pan"]
           ELSE /\ UNCHANGED <<views, shown>>
                /\ op' = [instance |-> k, kind |-> "other"]
        /\ UNCHANGED <<chartVars, lifeVars, throttleVars, utilVars, manualVars>>

\* a mouseup over the canvas of component k (0: elsewhere on the page): the
\* canvas listener of k, then the document listeners of every component
TwinMouseUp(k) ==
    /\ views' = [c \in Instances |->
                    IF \E j \in Instances : ViewOf(j) = c
                    THEN [views[c] EXCEPT !.isDragging = FALSE]
                    ELSE views[c]]
    /\ op' = [instance |-> k, kind |-> "other"]
    /\ UNCHANGED shown
    /\ UNCHANGED <<chartVars, lifeVars, throttleVars, utilVars, manualVars>>

\* the wheel handler of component k
TwinWheel(k, zoomFactor) ==
    LET v == views[ViewOf(k)]
        newCandleWidth == constrainCandleWidth(v.canvasWidth, zoomFactor,
                                               I(MinWidthA), I(MaxWidth), I(0), I(0))
        mc == MaxCandlesFor(TwinChartWidth, newCandleWidth)
        centerIndex == JsAdd(I(v.startIndex), JsDiv(I(mc), I(2)))
        first == MaxInt(0, Floor(JsSub(centerIndex, JsDiv(I(mc), I(2)))))
        after == [v EXCEPT !.canvasWidth = newCandleWidth, !.maxCandles = mc,
                           !.startIndex = MinInt(TwinDataLength - mc, first)]
    IN  /\ newCandleWidth[2] <= MaxDenominator
        /\ IF newCandleWidth # v.canvasWidth
           THEN /\ views' = [views EXCEPT ![ViewOf(k)] = after]
                /\ TwinDraw(k, after)
                /\ op' = [instance |-> k, kind |-> "zoom"]
           ELSE /\ UNCHANGED <<views, shown>>
                /\ op' = [instance |-> k, kind |-> "other"]
        /\ UNCHANGED <<chartVars, lifeVars, throttleVars, utilVars, manualVars>>

\* drawChart of component k, called by its redraw timer
TwinRender(k) ==
    /\ TwinDraw(k, views[ViewOf(k)])
    /\ op' = [instance |-> k, kind |-> "render"]
    /\ UNCHANGED views
    /\ UNCHANGED <<chartVars, lifeVars, throttleVars, utilVars, manualVars>>

InitTwin ==
    /\ InitChart
    /\ dataLength = 6
    /\ dataKind = "mixed"
    /\ win = TwinWindow
    /\ mounted = TRUE
    /\ effectRuns = 1
    /\ pending = {}
    /\ appRef = 1
    /\ attached = {1}
    /\ memoryTasks = TRUE
    /\ throttled = [key |-> "mouseMove", delay |-> 16]
    /\ ThrottleIdle
    /\ calc = NoCall
    /\ TwinIdle
    /\ ManualIdle

NextTwin ==
    \/ \E k \in Instances, x \in MouseXs : TwinMouseDown(k, x)
    \/ \E k \in Instances, x \in MouseXs : TwinMouseMove(k, x)
    \/ \E k \in Instances \cup {0} : TwinMouseUp(k)
    \/ \E k \in Instances, z \in ZoomFactors : TwinWheel(k, z)
    \/ \E k \in Instances : TwinRender(k)

SpecTwin == InitTwin /\ [][NextTwin]_vars

(***************************************************************************)
(* ManualViewportStockChart: pan by dragging and zoom by the wheel.  The    *)
(* handlers are created and attached by initPIXI, which runs only once the *)
(* data is loaded and again whenever the dimensions change.                *)
(***************************************************************************)
ManualDataLengths == {6, 30}

ManualWidths == {250, 750}

\* zoomX is a field of a ref and survives a re-initialisation: the start
\* value, and the two limits it is clamped to after enough wheel events
ManualZooms == {<<5, 16>>, I(3), I(10)}

\* e.clientX of pointer and wheel events; the canvas starts at the left edge
ManualMouseXs == {0, 60, 300}

\* e.deltaY of wheel events
ManualDeltaYs == {-100, 100}

\* drags and wheel events handled in one behaviour
MaxDrags == 2

MaxWheels == 1

worldToScreen(vp, worldX) == JsMul(JsSub(worldX, vp.cameraX), vp.zoomX)

screenToWorld(vp, screenX) == JsAdd(JsDiv(screenX, vp.zoomX), vp.cameraX)

\* maxCameraX of the handlers: the camera position showing the end of the data
maxCameraX(vp, length, width) ==
    JsSub(I(length * vp.canvasWidth), JsDiv(I(width), vp.zoomX))

\* Math.max(0, Math.min(maxCameraX, x)) for a swapped order of the two limits
ClampCameraX_MinLast(vp, length, width, x) ==
    JsMin(maxCameraX(vp, length, width), JsMax(I(0), x))

\* Math.max(minCameraX, Math.min(maxCameraX, x)) with minCameraX = 0
ClampCameraX(vp, length, width, x) ==
    JsMax(I(0), JsMin(maxCameraX(vp, length, width), x))

\* initPIXI: the camera shows the latest data
InitialCameraX(vp, length, width) ==
    JsMax(I(0), maxCameraX(vp, length, width))

\* the zoom factor of a wheel event, chosen by the candle's width on screen
SmartZoomFactor(vp, deltaY) ==
    LET currentScreenCandleWidth == JsMul(I(vp.canvasWidth), vp.zoomX)
    IN  IF deltaY < 0
        THEN (IF JsLt(currentScreenCandleWidth, I(5)) THEN <<13, 10>>
              ELSE IF JsLt(currentScreenCandleWidth, I(20)) THEN <<23, 20>>
              ELSE <<21, 20>>)
        ELSE (IF JsLt(I(15), currentScreenCandleWidth) THEN <<17, 20>>
              ELSE IF JsLt(I(5), currentScreenCandleWidth) THEN <<9, 10>>
              ELSE <<19, 20>>)

ViewportMouseDown(clientX) ==
    /\ manualViewport' = [manualViewport EXCEPT !.isDragging = TRUE,
                                                !.lastMouseX = clientX]
    /\ UNCHANGED <<manualData, manualOps>>
    /\ UNCHANGED <<chartVars, lifeVars, throttleVars, utilVars, twinVars>>

ViewportMouseMove(clientX) ==
    /\ manualViewport.isDragging
    /\ manualOps.drags < MaxDrags
    /\ LET deltaX == clientX - manualViewport.lastMouseX
           newCameraX == JsSub(manualViewport.cameraX,
                               JsDiv(I(deltaX), manualViewport.zoomX))
       IN  manualViewport' =
               [manualViewport EXCEPT
                   !.cameraX = ClampCameraX(manualViewport, manualData.length,
                                            manualData.width, newCameraX),
                   !.lastMouseX = clientX]
    /\ manualOps' = [manualOps EXCEPT !.drags = @ + 1]
    /\ UNCHANGED manualData
    /\ UNCHANGED <<chartVars, lifeVars, throttleVars, utilVars, twinVars>>

ViewportMouseUp ==
    /\ manualViewport' = [manualViewport EXCEPT !.isDragging = FALSE]
    /\ UNCHANGED <<manualData, manualOps>>
    /\ UNCHANGED <<chartVars, lifeVars, throttleVars, utilVars, twinVars>>

ViewportWheel(deltaY, clientX) ==
    /\ manualOps.wheels < MaxWheels
    /\ LET mouseX == I(clientX)
           worldPos == screenToWorld(manualViewport, mouseX)
           minZoom == JsDiv(<<5, 2>>, I(manualViewport.canvasWidth))
           maxZoom == JsDiv(I(80), I(manualViewport.canvasWidth))
           zoomed == [manualViewport EXCEPT
                         !.zoomX = JsMax(minZoom, JsMin(maxZoom,
                                      JsMul(@, SmartZoomFactor(manualViewport,
                                                               deltaY))))]
           newScreenPos == worldToScreen(zoomed, worldPos)
           moved == JsAdd(zoomed.cameraX,
                          JsDiv(JsSub(newScreenPos, mouseX), zoomed.zoomX))
       IN  manualViewport' =
               [zoomed EXCEPT
                   !.cameraX = ClampCameraX(zoomed, manualData.length,
                                            manualData.width, moved)]
    /\ manualOps' = [manualOps EXCEPT !.wheels = @ + 1]
    /\ UNCHANGED manualData
    /\ UNCHANGED <<chartVars, lifeVars, throttleVars, utilVars, twinVars>>

\* handleResize sets the dimensions; the effect that depends on them removes
\* the handlers and runs initPIXI again, which places the camera anew
ViewportResize(width) ==
    /\ width # manualData.width
    /\ manualData' = [manualData EXCEPT !.width = width]
    /\ manualViewport' =
           [manualViewport EXCEPT
               !.cameraX = InitialCameraX(manualViewport, manualData.length,
                                          width)]
    /\ UNCHANGED manualOps
    /\ UNCHANGED <<chartVars, lifeVars, throttleVars, utilVars, twinVars>>

InitManual ==
    /\ InitChart
    /\ dataLength = 6
    /\ dataKind = "mixed"
    /\ win = <<250, 275>>
    /\ mounted = TRUE
    /\ effectRuns = 1
    /\ pending = {}
    /\ appRef = 1
    /\ attached = {1}
    /\ memoryTasks = TRUE
    /\ throttled = [key |-> "mouseMove", delay |-> 16]
    /\ ThrottleIdle
    /\ calc = NoCall
    /\ TwinIdle
    /\ \E length \in ManualDataLengths, width \in ManualWidths,
          zoomX \in ManualZooms :
          LET vp == [ManualViewportAtMount EXCEPT !.zoomX = zoomX]
          IN  /\ manualData = [length |-> length, width |-> width]
              /\ manualViewport =
                     [vp EXCEPT !.cameraX = InitialCameraX(vp, length, width)]
    /\ manualOps = NoManualOps

NextManual ==
    \/ \E x \in ManualMouseXs : ViewportMouseDown(x)
    \/ \E x \in ManualMouseXs : ViewportMouseMove(x)
    \/ ViewportMouseUp
    \/ \E deltaY \in ManualDeltaYs, x \in ManualMouseXs : ViewportWheel(deltaY, x)
    \/ \E w \in ManualWidths : ViewportResize(w)

SpecManual == InitManual /\ [][NextManual]_vars

(***************************************************************************)
(* Properties                                                              *)
(***************************************************************************)
\* Math.floor(chartWidth / candleWidth) as it stands
visibleCount == MaxCandlesFor(chartDimensions.chartWidth, canvasWidth)

StartIndexInRange ==
    /\ 0 <= startIndex
    /\ startIndex <= MaxInt(0, dataLength - visibleCount)

\* a pan or a zoom of the loaded chart
PanOrZoomStep == dataLoaded /\ (startIndex' # startIndex \/ canvasWidth' # canvasWidth)

\* C1: after every pan or zoom of a loaded dataset of N candles,
\* 0 <= startIndex <= max(0, N - visibleCount), with visibleCount =
\* floor(chartWidth / candleWidth) as it stands after the operation.
C1_StartIndexClamped == [][PanOrZoomStep => StartIndexInRange']_vars

\* C2: a rendered frame has issued at most 3 draw submissions, whatever the
\* size of the visible slice.
C2_AtMostThreeDraws == screen.draws <= 3

\* C3: a frame whose visible prices are all equal (priceDiff = 0) puts no NaN
\* and no Infinity into the wick and body geometry.
C3_FlatSliceGeometryFinite == dataKind = "flat" => ~screen.nonFinite

\* the minimum width after dynamic tightening to chartWidth / N
effectiveMin ==
    JsMax(DynamicMinFloor, JsDiv(I(chartDimensions.chartWidth), I(dataLength)))

ZoomStep == dataLoaded /\ canvasWidth' # canvasWidth

\* C4: after every zoom, candleWidth is within [effectiveMin, maxWidth]; in
\* particular it never exceeds maxWidth.
C4_WidthWithinLimits ==
    [][ZoomStep => (JsLe(effectiveMin', canvasWidth') /\ JsLe(canvasWidth', I(MaxWidth)))]_vars

\* C5: zooming out never leaves candleWidth smaller than chartWidth / N.
C5_ZoomOutNotBelowFloor ==
    [][(ZoomStep /\ JsLt(canvasWidth', canvasWidth))
         => JsLe(JsDiv(I(chartDimensions.chartWidth), I(dataLength)), canvasWidth')]_vars

\* the pointer leaves the canvas
LeaveStep == pointerOver /\ ~pointerOver'

\* C6 (as amended): a pointer-leave leaves isDragging as it was; Dragging
\* ends on pointer-up only.
C6_LeaveKeepsDragState ==
    [][(LeaveStep => isDragging' = isDragging)
       /\ ((isDragging /\ ~isDragging') => pointerOver' = pointerOver)]_vars

\* the pointer left the canvas during a drag, and the drag is still on
C6_LeftWhileDragging == isDragging /\ ~pointerOver

\* C6 (as stated): once the pointer has left the canvas, isDragging is false.
C6_LeaveEndsDrag == ~pointerOver => ~isDragging

\* the frame f is the one for the current viewport state
ShowsView(f) ==
    /\ f.count > 0
    /\ f.start = startIndex
    /\ f.canvasWidth = canvasWidth
    /\ f.count = Cardinality(VisibleIndices(startIndex, maxCandles, dataLength))

\* drawChart is called again and nothing it reads has changed since the frame
\* on the display list was drawn
RedundantDrawStep ==
    /\ ShowsView(scene.frame)
    /\ scene.frame.width = dimensions.width
    /\ scene.frame.height = dimensions.height
    /\ drawCalls' = drawCalls + 1
    /\ UNCHANGED <<dataLength, dataKind, dataLoaded, win, dimensions, startIndex,
                   canvasWidth, maxCandles>>

\* C7: a redundant drawChart call leaves the same candles on the display list
\* as the call before it.
C7_RedrawKeepsCandles == [][RedundantDrawStep => scene'.frame = scene.frame]_vars

\* a re-render trigger whose handler calls drawChart itself: the data has
\* loaded, the window was resized, a pan changed startIndex, or the animation
\* frame of a zoom has come
TriggerStep ==
    /\ dataLoaded'
    /\ \/ ~dataLoaded
       \/ win' # win
       \/ startIndex' # startIndex /\ canvasWidth' = canvasWidth
       \/ rafDraws' # rafDraws /\ rafDraws' \subseteq rafDraws

\* C8: every re-render trigger leaves the frame of the current viewport state
\* on the canvas.
C8_TriggerDrawsFrame ==
    [][(TriggerStep /\ VisibleIndices(startIndex', maxCandles', dataLength) # {})
         => ShowsView(screen)']_vars

\* C9: no drawable made for a frame is left undestroyed once the next
\* drawChart call has run.
C9_NoUnreleasedDrawables == leaked = 0

\* C10: listeners of at most one effect run are attached, and none once the
\* component is unmounted.
C10_ListenersRemoved ==
    /\ Cardinality(attached) <= 1
    /\ ~mounted => attached = {}

\* the data-load completion
LoadStep == ~dataLoaded /\ dataLoaded'

\* C11: when the data load completes, the last candle of the dataset (index
\* N - 1) is inside the visible window, whatever the chart width.
C11_LatestCandleVisibleAtLoad ==
    [][LoadStep => (dataLength - 1) \in VisibleIndices(startIndex', maxCandles', dataLength)]_vars

\* an animation frame in which the body of a throttled handler runs
BodyRunStep == throttled \in ThrottledHandlers /\ rafQueue # {} /\ rafQueue' = {}

\* C12: when pointer-move or wheel events have arrived before an animation
\* frame, the event the handler body processes in that frame is the latest of
\* them.
C12_LatestEventProcessed ==
    [][(BodyRunStep /\ throttled.key # "resize") => processed' = lastEvent]_vars

\* C13: the pointer-move handler body and the wheel handler body each run at
\* most once per animation frame, however many events arrived in it.
C13_OncePerFrame == throttled.key # "resize" => ranInFrame <= 1

\* a resize event arrives
ResizeEventStep == throttled.key = "resize" /\ lastEvent' = lastEvent + 1

FullView == startIndex = 0 /\ maxCandles >= dataLength

\* zooming out changes nothing any more: the wheel handler finds the candle
\* width it computes equal to the one it has
ZoomedOutFully == dataLoaded /\ WheelWidthB(ZoomOut) = canvasWidth

\* C15: repeated zooming out ends in a state in which all N candles are
\* visible: where a further zoom-out changes nothing, startIndex = 0 and
\* visibleCount >= N.
C15_ZoomOutReachesFullView == ZoomedOutFully => FullView

\* the index of the last candle visible (of the last candle of the dataset if
\* the window reaches beyond it)
lastVisibleIndex == MinInt(startIndex + maxCandles - 1, dataLength - 1)

\* C16: after a zoom that changes candleWidth, startIndex =
\* max(0, currentEndIndex - newVisibleCount + 1), currentEndIndex being the
\* index of the last candle visible before the zoom.
C16_RightEdgeAnchored ==
    [][ZoomStep => startIndex' = MaxInt(0, lastVisibleIndex - maxCandles' + 1)]_vars

\* startIndex is at its maximum, N - visibleCount
AtRightEdge == dataLoaded /\ startIndex = dataLength - maxCandles /\ startIndex >= 0

\* C17: with startIndex at its maximum (N = 100, visibleCount = 72,
\* startIndex = 28), a drag toward higher indices (a pointer-move to the left
\* of the anchor) by any delta asks for startIndex as it is, and no step of
\* the pan takes startIndex above the maximum.
C17_PanClampedAtRightEdge ==
    /\ [](AtRightEdge /\ isDragging =>
            \A x \in MouseXs : x < lastMouseX => PanTarget(x) = startIndex)
    /\ [][AtRightEdge => startIndex' <= startIndex]_vars

\* the scenario: dragging with the anchor at 60, so that a move to 0 is an
\* attempt to pan three candles further right
C17_DraggingAtRightEdge ==
    /\ dataLength = PanDataLength /\ maxCandles = 72
    /\ startIndex = PanDataLength - 72
    /\ dataLoaded /\ isDragging /\ pointerOver /\ lastMouseX = 60

\* round(deltaX / candleWidth) for a pointer-move to clientX x
candlesMoved(x) == Round(JsDiv(I(x - lastMouseX), canvasWidth))

\* the valid range applied to a start index
clampStart(s) == MaxInt(0, MinInt(dataLength - maxCandles, s))

\* a step of the drag in which nothing but a pointer event happens
DragStep ==
    /\ dataLoaded /\ isDragging /\ isDragging'
    /\ UNCHANGED <<win, dimensions, canvasWidth, maxCandles, timerDraws, rafDraws>>

\* C18: while Dragging, a pointer-move that rounds to a non-zero number of
\* candles asks for clamp(startIndex - round(deltaX / candleWidth)); startIndex
\* is set to it and drawChart is called if and only if it differs from
\* startIndex; a movement that rounds to zero, or that the clamp absorbs,
\* changes nothing and calls no drawChart.
C18_PanRedrawsOnChange ==
    /\ [](dataLoaded =>
            \A x \in MouseXs :
               PanMoves(x) <=> /\ isDragging
                               /\ candlesMoved(x) # 0
                               /\ clampStart(startIndex - candlesMoved(x)) # startIndex)
    /\ [][DragStep =>
            /\ (drawCalls' = drawCalls + 1) <=> (startIndex' # startIndex)
            /\ (startIndex' # startIndex) =>
                  /\ candlesMoved(lastMouseX') # 0
                  /\ startIndex' = clampStart(startIndex - candlesMoved(lastMouseX'))]_vars

\* a drag has moved the window, and from here one pointer-move is absorbed
\* (to where the pointer is) and another would move the window again
C18_DraggedAndAbsorbing ==
    /\ dataLoaded /\ isDragging /\ drawCalls >= 2
    /\ \E x \in MouseXs : ~PanMoves(x)
    /\ \E x \in MouseXs : PanMoves(x)

\* the data indices of the K candles of the frame f
FrameIndices(f) == f.start .. (f.start + f.count - 1)

\* C19: the batch of a frame of K candles holds K wick segments and K body
\* rectangles, a candle's rectangle being in the bullish bucket if
\* close >= open and in the bearish bucket otherwise; the three candles
\* (10, 11), (11, 13), (13, 9) give wicks = 3, bullish = 2, bearish = 1.
C19_BatchClassification ==
    /\ screen.wicks = screen.count
    /\ screen.bullish + screen.bearish = screen.count
    /\ screen.bullish =
          Cardinality({i \in FrameIndices(screen) :
                          Candle(dataKind, i).close >= Candle(dataKind, i).open})
    /\ (dataKind = "scenario" /\ screen.count = 3) =>
          (screen.wicks = 3 /\ screen.bullish = 2 /\ screen.bearish = 1)

\* the three candles of the scenario have been batched and rendered
C19_ScenarioBatched ==
    /\ dataKind = "scenario" /\ screen.count = 3
    /\ screen.wicks = 3 /\ screen.bullish = 2 /\ screen.bearish = 1

\* C20: the body rectangle of a candle with open = close has height exactly 1,
\* and no body rectangle has a height below 1 (so none has height 0).
C20_DojiBodyVisible ==
    /\ \A h \in screen.dojiHeights : h = I(1)
    /\ \A h \in screen.bodyHeights : JsLe(I(1), h)

\* a rendered frame holds a doji next to candles with taller bodies
C20_DojiRendered ==
    /\ screen.dojiHeights = {I(1)}
    /\ \E h \in screen.bodyHeights : JsLt(I(1), h)

\* drawChart is called with the data loaded and finds its visible slice empty
EmptyDrawStep ==
    /\ dataLoaded'
    /\ drawCalls' = drawCalls + 1
    /\ VisibleIndices(startIndex', maxCandles', dataLength) = {}

\* C21: a drawChart call whose visible slice is empty returns before it builds
\* anything: it adds no drawable to the display list, submits no frame to the
\* canvas, releases and keeps nothing, and leaves the redraw cache as it was
\* (the display list and the canvas are as before the call, or empty where the
\* caller had emptied them before it called drawChart).
C21_EmptySliceDrawsNothing ==
    [][EmptyDrawStep =>
          /\ scene' \in {scene, EmptyScene}
          /\ screen' \in {screen, NoFrame}
          /\ leaked' = leaked /\ poolSize' = poolSize
          /\ lastDrawnRange' = lastDrawnRange]_vars

\* the animation frame of a zoom called drawChart on an empty slice: the
\* redraw it was asked for is still owed
C21_EmptySliceDrawn ==
    /\ dataLoaded /\ VisibleIndices(startIndex, maxCandles, dataLength) = {}
    /\ canvasWidth # I(DefaultCanvasWidth)
    /\ needsRedraw /\ rafDraws = {} /\ drawCalls >= 2

\* C22: onPerformanceUpdate receives exactly one record for each frame
\* drawChart has rendered: the records received and the records whose
\* animation-frame callback is still to run count the rendered frames, no call
\* that renders nothing makes a record, and a step hands over at most one
\* record per frame it renders or callback it runs.
C22_OneRecordPerFrame ==
    /\ [](metrics + metricsPending = rendered)
    /\ [][metrics' - metrics \in {0, 1} /\ rendered' - rendered \in {0, 1}]_vars

\* two frames were rendered and both records have been received; a third
\* drawChart call rendered nothing and made none
C22_RecordsReceived ==
    /\ rendered = 2 /\ metrics = 2 /\ metricsPending = 0 /\ drawCalls = 3

\* the pixel row the price lines of SvgYAxis and SvgGrid give a price, for the
\* price range and the chart bounds of the frame f
AxisRow(f, price) ==
    LET pr == calculatePriceRange(dataKind, FrameIndices(f))
        cd == calculateChartDimensions(f.width, f.height)
    IN  YAxisPosition(I(price), pr.priceMin, pr.priceMax, I(cd.marginTop),
                      I(cd.marginTop + cd.chartHeight))

\* the frame f shows candles over a price range of non-zero width (the axis
\* and the grid draw no price line when priceDiff is 0)
HasPriceAxis(f) ==
    f.count > 0 /\ calculatePriceRange(dataKind, FrameIndices(f)).priceDiff # I(0)

\* C23: in every rendered frame, the pixel row at which the candle geometry
\* puts a price (the high and the low of each visible candle) is the pixel row
\* the price lines of the grid and the Y axis give that price.
C23_SharedPriceScale ==
    HasPriceAxis(screen) => \A e \in screen.wickEnds : e[2] = AxisRow(screen, e[1])

\* C24: for every index i >= 0, every candle width > 0 and every left margin,
\* xToIndex(indexToX(i, candleWidth, marginLeft), candleWidth, marginLeft) = i.
C24_IndexRoundTrip == calc.fn = "index" => calc.back = calc.index

\* the round trip of the largest index through a candle centre that is not a
\* whole pixel, with a negative margin
C24_IndexConverted ==
    /\ calc.fn = "index" /\ calc.index = MaxIndex /\ calc.canvasWidth = <<1, 3>>
    /\ calc.marginLeft = -5 /\ calc.x = <<-17, 6>> /\ calc.back = MaxIndex

\* C25: for every price and every (priceMin, priceDiff, chartTop, chartHeight)
\* with priceDiff # 0 and chartHeight # 0,
\* yToPrice(priceToY(price, ...), ...) = price.
C25_PriceRoundTrip ==
    (calc.fn = "price" /\ calc.priceDiff # I(0) /\ calc.chartHeight # I(0))
        => calc.back = calc.price

\* the round trip of a price through a chart that starts at row 10: in the
\* range 98.4 .. 105.6 over 200 rows, 105.1 is at row 215/9 and is read back
\* as 105.1
C25_PriceConverted ==
    /\ calc.fn = "price" /\ calc.price = <<1051, 10>> /\ calc.priceMin = <<492, 5>>
    /\ calc.priceDiff = <<36, 5>> /\ calc.chartTop = I(10)
    /\ calc.chartHeight = I(200) /\ calc.y = <<215, 9>>
    /\ calc.back = <<1051, 10>>

\* C26: for the three candles (10, 12, 9, 11), (11, 14, 10, 13), (13, 13, 8, 9)
\* (open, high, low, close) and the default 10% padding, calculatePriceRange
\* returns minPrice = 8, maxPrice = 14, priceMin = 7.4, priceMax = 14.6 and
\* priceDiff = 7.2.
C26_BasicRange ==
    (calc.fn = "range" /\ calc.kind = "scenario" /\ calc.count = 3) =>
        /\ calc.range.minPrice = I(8) /\ calc.range.maxPrice = I(14)
        /\ calc.range.priceMin = <<37, 5>> /\ calc.range.priceMax = <<73, 5>>
        /\ calc.range.priceDiff = <<36, 5>>

\* calculatePriceRange has been applied to the three candles of the scenario
C26_ScenarioRanged ==
    /\ calc.fn = "range" /\ calc.kind = "scenario" /\ calc.count = 3
    /\ Candle("scenario", 2) = [open |-> 13, high |-> 13, low |-> 8, close |-> 9]
    /\ calc.range.priceMin = <<37, 5>>

\* the viewport state of component j, as its own handlers see it
InstanceView(j) ==
    <<views[ViewOf(j)].startIndex, views[ViewOf(j)].canvasWidth,
      views[ViewOf(j)].isDragging>>

\* C27: of two components on one page, a pan, a zoom or a render performed on
\* one leaves startIndex, candleWidth and isDragging of the other as they were.
C27_InstancesIndependent ==
    [][\A k \in Instances :
          (op'.instance = k /\ op'.kind \in {"pan", "zoom", "render"}) =>
              \A j \in Instances \ {k} : InstanceView(j)' = InstanceView(j)]_vars

\* component 1 has been panned and is still dragging, component 2 has just
\* been zoomed: the two viewports differ in every field
C27_BothOperated ==
    /\ op = [instance |-> 2, kind |-> "zoom"]
    /\ views[1].isDragging /\ ~views[2].isDragging
    /\ views[1].startIndex > 0 /\ views[2].startIndex = 0
    /\ views[1].canvasWidth = I(DefaultCanvasWidth)
    /\ views[2].canvasWidth # I(DefaultCanvasWidth)
    /\ shown[1] # NothingShown /\ shown[2] # shown[1]

\* handleResize has run on the loaded chart: the window has another size
ResizeStep == dataLoaded /\ win' # win

\* C28: a resize of the loaded chart that finds startIndex within
\* [0, max(0, N - visibleCount)] leaves it within that range for the
\* visibleCount recomputed from the new chart width.
C28_ResizeKeepsStartInRange ==
    [][(ResizeStep /\ StartIndexInRange) => StartIndexInRange']_vars

\* the data index under the horizontal midpoint of the chart area
midpointIndex ==
    startIndex + xToIndex(JsDiv(I(chartDimensions.chartWidth), I(2)), canvasWidth, 0)

\* startIndex lies strictly inside its valid range: no end of the range holds it
StartIndexUnclamped == 0 < startIndex /\ startIndex < dataLength - maxCandles

\* C29: a wheel zoom of StockChart that leaves startIndex strictly inside its
\* valid range keeps the data index under the viewport's horizontal midpoint
\* to within one candle.
C29_CentreAnchored ==
    [][(ZoomStep /\ StartIndexUnclamped') => Abs(midpointIndex' - midpointIndex) <= 1]_vars

\* C30: in the manual-viewport variant, after any sequence of drag and wheel
\* operations the camera position cameraX lies within
\* [0, max(0, N * canvasWidth - screenWidth / zoomX)], where N is the number
\* of candles loaded and screenWidth the width of the dimensions
C30_CameraWithinBounds ==
    /\ JsLe(I(0), manualViewport.cameraX)
    /\ JsLe(manualViewport.cameraX,
            JsMax(I(0), maxCameraX(manualViewport, manualData.length,
                                   manualData.width)))

\* the data is narrower than the screen (N * canvasWidth < screenWidth / zoomX
\* after a zoom), and the camera has been dragged and zoomed
C30_DraggedAndZoomed ==
    /\ manualOps.drags > 0
    /\ manualOps.wheels > 0
    /\ manualViewport.zoomX \notin ManualZooms
    /\ JsLt(maxCameraX(manualViewport, manualData.length, manualData.width),
            I(0))

====
